---- MODULE Spec2Model ----
(***************************************************************************)
(* Model of scripts/update_from_iana_subtag_registery.py: the generator    *)
(* that turns the IANA language subtag registry into the static tables of  *)
(* iana_registry.rs.                                                       *)
(*                                                                         *)
(* Text is modelled as text: every Python str is a TLA+ string, taken      *)
(* apart with Head/Tail/SubSeq and put together with \o, so that the       *)
(* regular expression, the quoting, the slicing and the sort order are     *)
(* computed character by character as the script computes them.            *)
(***************************************************************************)
EXTENDS Integers, Sequences, FiniteSets, TLC

\* Number of lines the registry stream delivers before it ends.
MaxLines == 5

\* ------------------------------------------------------------------------
\* Characters and strings
\* ------------------------------------------------------------------------

\* The characters that occur in the model, in code point order (the order
\* Python compares str by).
ascii == "\t\n\r \"'(),-0123456789:;<=>ABCDEFGHIJKLMNOPQRSTUVWXYZ[]_abcdefghijklmnopqrstuvwxyz{}"

ord(c) == CHOOSE i \in 1..Len(ascii) : SubSeq(ascii, i, i) = c

Chars(s) == {SubSeq(s, i, i) : i \in 1..Len(s)}

whitespace == {" ", "\t", "\n", "\r"}

\* s[n:]
Drop(s, n) == SubSeq(s, n + 1, Len(s))

\* Length of the longest prefix of s made of characters of S.
RECURSIVE SpanLen(_, _)
SpanLen(s, S) ==
    IF s = "" \/ Head(s) \notin S THEN 0 ELSE 1 + SpanLen(Tail(s), S)

\* Length of the longest suffix of s made of characters of S.
RECURSIVE SpanLenRight(_, _)
SpanLenRight(s, S) ==
    IF s = "" \/ SubSeq(s, Len(s), Len(s)) \notin S
    THEN 0
    ELSE 1 + SpanLenRight(SubSeq(s, 1, Len(s) - 1), S)

\* str.strip()
strip(s) ==
    LET l == Drop(s, SpanLen(s, whitespace))
    IN  SubSeq(l, 1, Len(l) - SpanLenRight(l, whitespace))

\* a < b for str
RECURSIVE StrLess(_, _)
StrLess(a, b) ==
    IF b = "" THEN FALSE
    ELSE IF a = "" THEN TRUE
    ELSE IF Head(a) = Head(b) THEN StrLess(Tail(a), Tail(b))
    ELSE ord(Head(a)) < ord(Head(b))

\* sep.join(l)
RECURSIVE join(_, _)
join(sep, l) ==
    IF l = <<>> THEN ""
    ELSE IF Len(l) = 1 THEN l[1]
    ELSE l[1] \o sep \o join(sep, Tail(l))

\* str(n) for a list length
digits == "0123456789"

RECURSIVE str(_)
str(n) ==
    IF n < 10 THEN SubSeq(digits, n + 1, n + 1)
    ELSE str(n \div 10) \o SubSeq(digits, (n % 10) + 1, (n % 10) + 1)

\* s.split(' ')[0]
split_first(s) == SubSeq(s, 1, SpanLen(s, Chars(s) \ {" "}))

None == "<None>"

\* ------------------------------------------------------------------------
\* parse_registry
\* ------------------------------------------------------------------------

NameChars == Chars("abcdefghijklmnopqrstuvwxyzABCDEFGHIJKLMNOPQRSTUVWXYZ0123456789-")

\* field_regex.match(line) for '^([a-zA-Z0-9-]+) *: *(.*)$'.  The name class
\* holds neither ' ' nor ':', so the greedy match is the only match.
field_regex(ln) ==
    LET n  == SpanLen(ln, NameChars)
        r1 == Drop(ln, n)
        r2 == Drop(r1, SpanLen(r1, {" "}))
    IN  IF n >= 1 /\ r2 # "" /\ Head(r2) = ":"
        THEN [matched |-> TRUE,
              group1  |-> SubSeq(ln, 1, n),
              group2  |-> Drop(Tail(r2), SpanLen(Tail(r2), {" "}))]
        ELSE [matched |-> FALSE, group1 |-> "", group2 |-> ""]

\* defaultdict(list)
EmptyDict == [k \in {} |-> <<>>]

\* d[k] of a defaultdict(list): the value, [] when the key is missing
Get(d, k) == IF k \in DOMAIN d THEN d[k] ELSE <<>>

\* the dict after d[k] was evaluated: a missing key is inserted with []
Touch(d, k) == IF k \in DOMAIN d THEN d ELSE [x \in DOMAIN d \cup {k} |-> Get(d, x)]

\* the dict after d[k] = v
Put(d, k, v) == [x \in DOMAIN d \cup {k} |-> IF x = k THEN v ELSE d[x]]

\* ------------------------------------------------------------------------
\* Serializers
\* ------------------------------------------------------------------------

struct_definitions ==
    "\npub struct LanguageRecord {\n    pub subtag: &'static str,\n"
    \o "    pub preferred_value: Option<&'static str>,\n"
    \o "    pub suppress_script: Option<&'static str>,\n"
    \o "    pub macrolanguage: Option<&'static str>\n}\n\n"
    \o "pub struct ExtlangRecord {\n    pub subtag: &'static str,\n"
    \o "    pub preferred_value: &'static str,\n"
    \o "    pub prefix: &'static str\n}\n\n"
    \o "pub struct ScriptRecord {\n    pub subtag: &'static str,\n"
    \o "    pub preferred_value: Option<&'static str>\n}\n\n"
    \o "pub struct RegionRecord {\n    pub subtag: &'static str,\n"
    \o "    pub preferred_value: Option<&'static str>\n}\n\n"
    \o "pub struct VariantRecord {\n    pub subtag: &'static str,\n"
    \o "    pub preferred_value: Option<&'static str>,\n"
    \o "    pub prefixes: &'static str\n}\n\n"
    \o "pub struct GrandfatheredRecord {\n    pub tag: &'static str,\n"
    \o "    pub preferred_value: Option<&'static str>,\n}\n\n"
    \o "pub struct RedundantRecord {\n    pub tag: &'static str,\n"
    \o "    pub preferred_value: Option<&'static str>,\n}\n\n\n"

\* '{}'.format(l) of a list of str: the list's repr
repr_list(l) ==
    "[" \o join(", ", [i \in 1..Len(l) |-> "'" \o l[i] \o "'"]) \o "]"

\* A serializer's outcome: the rendered text, or the message of the
\* ValueError it raised.
Returned(text) == [raised |-> FALSE, value |-> text]
Raised(msg) == [raised |-> TRUE, value |-> msg]

\* serialize_mandatory testing `if l` where the script tests len(l) == 1
serialize_mandatory_nonempty(l) ==
    IF Len(l) >= 1
    THEN Returned("\"" \o l[1] \o "\"")
    ELSE Raised("multiple values: " \o repr_list(l))

serialize_mandatory(l) ==
    IF Len(l) = 1
    THEN Returned("\"" \o l[1] \o "\"")
    ELSE Raised("multiple values: " \o repr_list(l))

serialize_option(l) ==
    IF Len(l) > 1
    THEN Raised("multiple values: " \o repr_list(l))
    ELSE IF Len(l) = 1
    THEN Returned("Some(\"" \o l[1] \o "\")")
    ELSE Returned("None")

\* the slice taken one character short: [:-2] for [:-1]
extlang_prefix_short(l) ==
    LET m == serialize_mandatory(l)
    IN  IF m.raised THEN m
        ELSE Returned(SubSeq(m.value, 1, Len(m.value) - 2) \o "-\"")

\* serialize_mandatory(record['Prefix'])[:-1] + '-"'
extlang_prefix(l) ==
    LET m == serialize_mandatory(l)
    IN  IF m.raised THEN m
        ELSE Returned(SubSeq(m.value, 1, Len(m.value) - 1) \o "-\"")

\* the generator expression without its `if p`
variant_prefixes_unfiltered(l) ==
    Returned("\"" \o join(" ", [i \in 1..Len(l) |-> l[i] \o "-"]) \o "\"")

\* '"{}"'.format(' '.join(p + '-' for p in record['Prefix'] if p))
variant_prefixes(l) ==
    LET kept == SelectSeq(l, LAMBDA p : p # "")
    IN  Returned("\"" \o join(" ", [i \in 1..Len(kept) |-> kept[i] \o "-"]) \o "\"")

\* serialize_struct(name, values) for the dict whose items, in order, are
\* the <<key, text>> pairs of items
serialize_struct(name, items) ==
    name \o " {\n"
    \o join("\n", [i \in 1..Len(items) |-> items[i][1] \o ": " \o items[i][2] \o ","])
    \o "\n}"

\* serialize_static_array(name, elements), elements not empty
serialize_static_array(name, elements) ==
    "pub const " \o name \o ": [" \o split_first(elements[1]) \o "; "
    \o str(Len(elements)) \o "] = [\n" \o join(",\n", elements) \o "\n];\n\n"

\* list.sort(): a stable ascending sort
RECURSIVE insert(_, _)
insert(x, l) ==
    IF l = <<>> THEN <<x>>
    ELSE IF StrLess(x, l[1]) THEN <<x>> \o l
    ELSE <<l[1]>> \o insert(x, Tail(l))

RECURSIVE sorted_from(_, _)
sorted_from(acc, l) ==
    IF l = <<>> THEN acc ELSE sorted_from(insert(l[1], acc), Tail(l))

\* sorted(v) with its result dropped: the list keeps its order
sort_dropped(l) == l

sort(l) == sorted_from(<<>>, l)

\* ------------------------------------------------------------------------
\* The record loop: one branch per Type
\* ------------------------------------------------------------------------

\* One entry of the dict literal handed to serialize_struct: the struct
\* field, the registry field read with record[...], the serializer's outcome.
Item(key, field, res) == [key |-> key, field |-> field, res |-> res]

language_items(rec) ==
    << Item("subtag", "Subtag", serialize_mandatory(Get(rec, "Subtag"))),
       Item("preferred_value", "Preferred-Value", serialize_option(Get(rec, "Preferred-Value"))),
       Item("suppress_script", "Suppress-Script", serialize_option(Get(rec, "Suppress-Script"))),
       Item("macrolanguage", "Macrolanguage", serialize_option(Get(rec, "Macrolanguage"))) >>

extlang_items(rec) ==
    << Item("subtag", "Subtag", serialize_mandatory(Get(rec, "Subtag"))),
       Item("preferred_value", "Preferred-Value", serialize_mandatory(Get(rec, "Preferred-Value"))),
       Item("prefix", "Prefix", extlang_prefix(Get(rec, "Prefix"))) >>

script_items(rec) ==
    << Item("subtag", "Subtag", serialize_mandatory(Get(rec, "Subtag"))),
       Item("preferred_value", "Preferred-Value", serialize_option(Get(rec, "Preferred-Value"))) >>

region_items(rec) ==
    << Item("subtag", "Subtag", serialize_mandatory(Get(rec, "Subtag"))),
       Item("preferred_value", "Preferred-Value", serialize_option(Get(rec, "Preferred-Value"))) >>

variant_items(rec) ==
    << Item("subtag", "Subtag", serialize_mandatory(Get(rec, "Subtag"))),
       Item("preferred_value", "Preferred-Value", serialize_option(Get(rec, "Preferred-Value"))),
       Item("prefixes", "Prefix", variant_prefixes(Get(rec, "Prefix"))) >>

grandfathered_items(rec) ==
    << Item("tag", "Tag", serialize_mandatory(Get(rec, "Tag"))),
       Item("preferred_value", "Preferred-Value", serialize_option(Get(rec, "Preferred-Value"))) >>

redundant_items(rec) ==
    << Item("tag", "Tag", serialize_mandatory(Get(rec, "Tag"))),
       Item("preferred_value", "Preferred-Value", serialize_option(Get(rec, "Preferred-Value"))) >>

Append_to(table, struct, items) ==
    [op |-> "append", table |-> table, struct |-> struct, items |-> items]

\* an unexpected record falling into the language branch
Unexpected_as_language ==
    [op |-> "append", table |-> "LANGUAGES", struct |-> "LanguageRecord", items |-> <<>>]

\* print('Unexpected record: {}'.format(record)): nothing is appended
Unexpected == [op |-> "print", table |-> "", struct |-> "", items |-> <<>>]

\* The branch of the if/elif chain that a record takes.
Branch(rec) ==
    IF "Type" \notin DOMAIN rec
    THEN IF "File-Date" \in DOMAIN rec
         THEN [op |-> "file_date", table |-> "", struct |-> "", items |-> <<>>]
         ELSE Unexpected
    ELSE LET t == rec["Type"][1]
         IN  IF t = "language" THEN Append_to("LANGUAGES", "LanguageRecord", language_items(rec))
             ELSE IF t = "extlang" THEN Append_to("EXTLANGS", "ExtlangRecord", extlang_items(rec))
             ELSE IF t = "script" THEN Append_to("SCRIPTS", "ScriptRecord", script_items(rec))
             ELSE IF t = "region" THEN Append_to("REGIONS", "RegionRecord", region_items(rec))
             ELSE IF t = "variant" THEN Append_to("VARIANTS", "VariantRecord", variant_items(rec))
             ELSE IF t = "grandfathered"
                  THEN Append_to("GRANDFATHEREDS", "GrandfatheredRecord", grandfathered_items(rec))
             ELSE IF t = "redundant"
                  THEN Append_to("REDUNDANTS", "RedundantRecord", redundant_items(rec))
             ELSE Unexpected

\* Index of the first item whose serializer raised, 0 when none did.  The
\* dict literal is evaluated in order and the first exception leaves it.
FirstRaised(items) ==
    IF \E i \in 1..Len(items) : items[i].res.raised
    THEN CHOOSE i \in 1..Len(items) :
             /\ items[i].res.raised
             /\ \A j \in 1..(i - 1) : ~items[j].res.raised
    ELSE 0

\* record after the fields of items[1..n] were read with record[...]
RECURSIVE TouchAll(_, _, _)
TouchAll(rec, items, n) ==
    IF n = 0 THEN rec ELSE Touch(TouchAll(rec, items, n - 1), items[n].field)

\* values is the defaultdict(list) of the run, kept as its items in
\* insertion order: <<key, list>> pairs.
Keys(vals) == {vals[i][1] : i \in 1..Len(vals)}

KeyIndex(vals, k) == CHOOSE i \in 1..Len(vals) : vals[i][1] = k

\* values[k]
Table(vals, k) == IF k \in Keys(vals) THEN vals[KeyIndex(vals, k)][2] ELSE <<>>

\* values after values[k] was evaluated
touch_values(vals, k) == IF k \in Keys(vals) THEN vals ELSE Append(vals, <<k, <<>>>>)

\* values[k] = [e] for values[k].append(e)
append_values_assign(vals, k, e) ==
    LET v == touch_values(vals, k)
        i == KeyIndex(v, k)
    IN  [v EXCEPT ![i] = <<k, <<e>>>>]

\* values after values[k].append(e)
append_values(vals, k, e) ==
    LET v == touch_values(vals, k)
        i == KeyIndex(v, k)
    IN  [v EXCEPT ![i] = <<k, Append(v[i][2], e)>>]

\* ------------------------------------------------------------------------
\* Registry streams
\* ------------------------------------------------------------------------

\* The raw lines a registry stream is made of, as urlopen delivers them.
\* A run reads its lines from one of these sets, in any order and number.
LanguageLines ==
    { "Type: language\n", "Subtag: b\n", "Subtag : a\n", "Preferred-Value: a\n",
      "Suppress-Script: Latn\n", "%%\n" }

WrappedLines ==
    { "Type: script\n", "Subtag:a\n", "Description: x\n", "  y z\n", "\n", "%%\n" }

VariantLines ==
    { "Type: variant\n", "Subtag: a\n", "Prefix: a\n", "Prefix: a-b\n", "Prefix:\n", "%%\n" }

ExtlangLines ==
    { "Type: extlang\n", "Subtag: a\n", "Preferred-Value: a\n", "Prefix: a\n",
      "Prefix: a-\n", "%%\n" }

MixedLines ==
    { "Type: region\n", "Type: widget\n", "Type: Language\n", "Subtag: a\n",
      "File-Date: 2026-01-01\n", "Comments: x\n", "%%\n" }

TagLines ==
    { "Type: grandfathered\n", "Type: redundant\n", "Tag: a-b\n", "Tag: a\n",
      "Macrolanguage: a\n", "%%\n" }

Pools == { LanguageLines, WrappedLines, VariantLines, ExtlangLines, MixedLines, TagLines }

\* ------------------------------------------------------------------------
\* State
\* ------------------------------------------------------------------------

VARIABLES
    pool,            \* the lines this run's stream draws from
    nread,           \* lines delivered so far
    eof,             \* the stream has ended
    pc,              \* "scan", "body", "write", "emit", "done" or "error"
    line,            \* parse_registry: line, stripped
    current_record,  \* parse_registry: current_record
    current_field,   \* parse_registry: current_field
    record,          \* the loop variable of the record loop
    yielded,         \* every record parse_registry has yielded, in order
    file_date,
    values,
    stdout,          \* the records print() reported as unexpected
    fp,              \* "unopened", "open" or "closed"
    artifact,        \* what was written to iana_registry.rs, one entry per fp.write
    emit_index,      \* position of the emit loop in values.items()
    exception        \* the exception that ended the run

vars == << pool, nread, eof, pc, line, current_record, current_field, record,
           yielded, file_date, values, stdout, fp, artifact, emit_index, exception >>

NoException == [type |-> "", message |-> ""]

Init ==
    /\ pool \in Pools
    /\ nread = 0
    /\ eof = FALSE
    /\ pc = "scan"
    /\ line = ""
    /\ current_record = EmptyDict
    /\ current_field = None
    /\ record = EmptyDict
    /\ yielded = <<>>
    /\ file_date = None
    /\ values = <<>>
    /\ stdout = <<>>
    /\ fp = "unopened"
    /\ artifact = <<>>
    /\ emit_index = 1
    /\ exception = NoException

\* ------------------------------------------------------------------------
\* parse_registry, one line per step
\* ------------------------------------------------------------------------

CanRead == pc = "scan" /\ ~eof /\ nread < MaxLines

\* if line == '%%': yield current_record; current_record = defaultdict(list)
ScanSeparator ==
    /\ CanRead
    /\ \E raw \in pool :
         /\ strip(raw) = "%%"
         /\ line' = strip(raw)
    /\ nread' = nread + 1
    /\ record' = current_record
    /\ yielded' = Append(yielded, current_record)
    /\ current_record' = EmptyDict
    /\ pc' = "body"
    /\ UNCHANGED << pool, eof, current_field, file_date, values, stdout, fp,
                    artifact, emit_index, exception >>

\* the line matches field_regex
ScanField ==
    /\ CanRead
    /\ \E raw \in pool :
         LET ln == strip(raw)
             m  == field_regex(ln)
         IN  /\ ln # "%%"
             /\ m.matched
             /\ line' = ln
             /\ current_field' = m.group1
             /\ current_record' =
                    Put(current_record, m.group1,
                        Append(Get(current_record, m.group1), m.group2))
    /\ nread' = nread + 1
    /\ UNCHANGED << pool, eof, pc, record, yielded, file_date, values, stdout,
                    fp, artifact, emit_index, exception >>

\* l.append(line) for l[-1] += ' ' + line
continued_appended(l, ln) == Append(l, ln)

\* l after l[-1] += ' ' + line, l not empty
continued(l, ln) == [l EXCEPT ![Len(l)] = @ \o " " \o ln]

\* a scanner that starts a value with a continuation line when the current
\* field has none
ScanContinuation_lenient ==
    /\ CanRead
    /\ \E raw \in pool :
         LET ln == strip(raw)
             l  == Get(current_record, current_field)
         IN  /\ ln # "%%"
             /\ ~field_regex(ln).matched
             /\ line' = ln
             /\ current_record' =
                    Put(current_record, current_field,
                        IF l = <<>> THEN << ln >> ELSE continued(l, ln))
    /\ nread' = nread + 1
    /\ UNCHANGED << pool, eof, pc, exception, current_field, record, yielded,
                    file_date, values, stdout, fp, artifact, emit_index >>

\* current_record[current_field][-1] += ' ' + line
ScanContinuation ==
    /\ CanRead
    /\ \E raw \in pool :
         LET ln == strip(raw)
             l  == Get(current_record, current_field)
         IN  /\ ln # "%%"
             /\ ~field_regex(ln).matched
             /\ line' = ln
             /\ IF l = <<>>
                THEN /\ current_record' = Touch(current_record, current_field)
                     /\ pc' = "error"
                     /\ exception' = [type |-> "IndexError",
                                      message |-> "list index out of range"]
                ELSE /\ current_record' =
                            Put(current_record, current_field, continued(l, ln))
                     /\ UNCHANGED << pc, exception >>
    /\ nread' = nread + 1
    /\ UNCHANGED << pool, eof, current_field, record, yielded, file_date,
                    values, stdout, fp, artifact, emit_index >>

\* the stream ends: if current_record: yield current_record
ScanEnd ==
    /\ pc = "scan"
    /\ ~eof
    /\ eof' = TRUE
    /\ IF DOMAIN current_record # {}
       THEN /\ record' = current_record
            /\ yielded' = Append(yielded, current_record)
            /\ pc' = "body"
       ELSE /\ pc' = "write"
            /\ UNCHANGED << record, yielded >>
    /\ UNCHANGED << pool, nread, line, current_record, current_field, file_date,
                    values, stdout, fp, artifact, emit_index, exception >>

\* ------------------------------------------------------------------------
\* The body of the record loop
\* ------------------------------------------------------------------------

\* Where the run goes after the body: back into the generator, or, when the
\* generator has returned, on to the write.
Resume == IF eof THEN "write" ELSE "scan"

Body ==
    /\ pc = "body"
    /\ LET b == Branch(record)
           n == FirstRaised(b.items)
       IN  IF b.op = "file_date"
           THEN /\ file_date' = record["File-Date"][1]
                /\ pc' = Resume
                /\ UNCHANGED << record, values, stdout, exception >>
           ELSE IF b.op = "print"
           THEN /\ stdout' = Append(stdout, record)
                /\ pc' = Resume
                /\ UNCHANGED << record, file_date, values, exception >>
           ELSE IF n = 0
           THEN /\ record' = TouchAll(record, b.items, Len(b.items))
                /\ values' =
                       append_values(values, b.table,
                           serialize_struct(b.struct,
                               [i \in 1..Len(b.items) |->
                                   <<b.items[i].key, b.items[i].res.value>>]))
                /\ pc' = Resume
                /\ UNCHANGED << file_date, stdout, exception >>
           ELSE /\ record' = TouchAll(record, b.items, n)
                /\ values' = touch_values(values, b.table)
                /\ pc' = "error"
                /\ exception' = [type |-> "ValueError",
                                 message |-> b.items[n].res.value]
                /\ UNCHANGED << file_date, stdout >>
    /\ UNCHANGED << pool, nread, eof, line, current_record, current_field,
                    yielded, fp, artifact, emit_index >>

\* ------------------------------------------------------------------------
\* The write
\* ------------------------------------------------------------------------

\* with open(target_path, 'wt') as fp: fp.write(struct_definitions)
OpenArtifact ==
    /\ pc = "write"
    /\ fp' = "open"
    /\ artifact' = << struct_definitions >>
    /\ emit_index' = 1
    /\ pc' = "emit"
    /\ UNCHANGED << pool, nread, eof, line, current_record, current_field,
                    record, yielded, file_date, values, stdout, exception >>

\* for k, v in values.items(): v.sort(); fp.write(serialize_static_array(k, v))
EmitTable ==
    /\ pc = "emit"
    /\ emit_index <= Len(values)
    /\ LET k == values[emit_index][1]
           v == sort(values[emit_index][2])
       IN  /\ values' = [values EXCEPT ![emit_index] = <<k, v>>]
           /\ IF v = <<>>
              THEN /\ pc' = "error"
                   /\ exception' = [type |-> "IndexError",
                                    message |-> "list index out of range"]
                   /\ fp' = "closed"
                   /\ UNCHANGED << artifact, emit_index >>
              ELSE /\ artifact' = Append(artifact, serialize_static_array(k, v))
                   /\ emit_index' = emit_index + 1
                   /\ UNCHANGED << pc, exception, fp >>
    /\ UNCHANGED << pool, nread, eof, line, current_record, current_field,
                    record, yielded, file_date, stdout >>

\* the with block is left
CloseArtifact ==
    /\ pc = "emit"
    /\ emit_index > Len(values)
    /\ fp' = "closed"
    /\ pc' = "done"
    /\ UNCHANGED << pool, nread, eof, line, current_record, current_field,
                    record, yielded, file_date, values, stdout, artifact,
                    emit_index, exception >>

Next ==
    \/ ScanSeparator
    \/ ScanField
    \/ ScanContinuation
    \/ ScanEnd
    \/ Body
    \/ OpenArtifact
    \/ EmitTable
    \/ CloseArtifact

Spec == Init /\ [][Next]_vars

\* ------------------------------------------------------------------------
\* Vocabulary of the properties
\* ------------------------------------------------------------------------

Kinds == { "language", "extlang", "script", "region", "variant",
           "grandfathered", "redundant" }

TableOf(kind) ==
    CASE kind = "language" -> "LANGUAGES"
      [] kind = "extlang" -> "EXTLANGS"
      [] kind = "script" -> "SCRIPTS"
      [] kind = "region" -> "REGIONS"
      [] kind = "variant" -> "VARIANTS"
      [] kind = "grandfathered" -> "GRANDFATHEREDS"
      [] kind = "redundant" -> "REDUNDANTS"

StructOf(kind) ==
    CASE kind = "language" -> "LanguageRecord"
      [] kind = "extlang" -> "ExtlangRecord"
      [] kind = "script" -> "ScriptRecord"
      [] kind = "region" -> "RegionRecord"
      [] kind = "variant" -> "VariantRecord"
      [] kind = "grandfathered" -> "GrandfatheredRecord"
      [] kind = "redundant" -> "RedundantRecord"

MandatorySingle(kind) ==
    CASE kind = "extlang" -> { "Subtag", "Preferred-Value", "Prefix" }
      [] kind \in { "grandfathered", "redundant" } -> { "Tag" }
      [] OTHER -> { "Subtag" }

OptionalSingle(kind) ==
    CASE kind = "language" -> { "Preferred-Value", "Suppress-Script", "Macrolanguage" }
      [] kind = "extlang" -> {}
      [] OTHER -> { "Preferred-Value" }

\* The Type of a record, None when it has none.
TypeOf(rec) == IF "Type" \in DOMAIN rec THEN rec["Type"][1] ELSE None

\* Number of values a record has for a field.
Card(rec, f) == Len(Get(rec, f))

Recognized(rec) == TypeOf(rec) \in Kinds

\* Neither a record of one of the seven kinds nor the File-Date record.
Skipped(rec) ==
    IF "Type" \in DOMAIN rec THEN ~Recognized(rec) ELSE "File-Date" \notin DOMAIN rec

\* The fields of a recognized record whose cardinality breaks its kind's rule.
ViolatedFields(rec) ==
    { f \in MandatorySingle(TypeOf(rec)) : Card(rec, f) # 1 }
    \cup { f \in OptionalSingle(TypeOf(rec)) : Card(rec, f) > 1 }

Violates(rec) == Recognized(rec) /\ ViolatedFields(rec) # {}

StartsWith(s, p) == Len(p) <= Len(s) /\ SubSeq(s, 1, Len(p)) = p

EndsWith(s, p) == Len(p) <= Len(s) /\ SubSeq(s, Len(s) - Len(p) + 1, Len(s)) = p

Contains(s, p) == \E i \in 0..(Len(s) - Len(p)) : SubSeq(s, i + 1, i + Len(p)) = p

\* Number of places of s where p starts.
Occurrences(s, p) ==
    Cardinality({ i \in 0..(Len(s) - Len(p)) : SubSeq(s, i + 1, i + Len(p)) = p })

\* a <= b in the lexicographic order of code points.
LexLeq(a, b) ==
    \/ StartsWith(b, a)
    \/ \E i \in 1..Len(a) :
         /\ i <= Len(b)
         /\ SubSeq(a, 1, i - 1) = SubSeq(b, 1, i - 1)
         /\ ord(SubSeq(a, i, i)) < ord(SubSeq(b, i, i))

Ascending(l) == \A i \in 1..(Len(l) - 1) : LexLeq(l[i], l[i + 1])

\* Number of yielded records whose Type is kind.
CountType(kind) == Cardinality({ i \in 1..Len(yielded) : TypeOf(yielded[i]) = kind })

\* The body has run on record and returned.
Processed == pc \in { "scan", "write" } /\ Len(yielded) > 0

Last(l) == l[Len(l)]

\* ------------------------------------------------------------------------
\* Properties
\* ------------------------------------------------------------------------

\* C1: every table written to the artifact lists its entries in ascending
\* lexicographic order of their rendered text, whatever the order of the
\* records in the registry.
C1_TablesSorted ==
    \A i \in 1..(Len(artifact) - 1) :
        /\ Ascending(values[i][2])
        /\ artifact[i + 1] = serialize_static_array(values[i][1], values[i][2])

\* A finished run whose two language records arrived in descending order.
C1_Witness ==
    /\ pc = "done"
    /\ Len(yielded) = 2
    /\ Get(yielded[1], "Subtag") = << "b" >>
    /\ Get(yielded[2], "Subtag") = << "a" >>
    /\ Len(Table(values, "LANGUAGES")) = 2
    /\ Len(artifact) = 2

\* C2: a recognized record with a mandatory-single field that has zero or
\* several values, or an optional-single field that has several, ends the
\* run with an error in the record loop, and the artifact is neither opened
\* nor written.
C2_CardinalityAborts ==
    (Violates(record) /\ pc # "body") =>
        /\ pc = "error"
        /\ exception.type = "ValueError"
        /\ fp = "unopened"
        /\ artifact = <<>>

\* A language record with two Subtag lines ended the run.
C2_Witness ==
    /\ pc = "error"
    /\ TypeOf(record) = "language"
    /\ Card(record, "Subtag") = 2
    /\ fp = "unopened"

\* C5: in a completed run the number of entries of table X, and the array
\* length declared for it, is the number of registry records whose Type is
\* X; records of no kind and the File-Date record enter no table.
C5_CountsMatch ==
    pc = "done" =>
        /\ Keys(values) \subseteq { TableOf(kind) : kind \in Kinds }
        /\ \A kind \in Kinds :
             Len(Table(values, TableOf(kind))) = CountType(kind)
        /\ Len(artifact) = Len(values) + 1
        /\ \A kind \in Kinds :
             TableOf(kind) \in Keys(values) =>
               LET text == artifact[KeyIndex(values, TableOf(kind)) + 1]
               IN  /\ StartsWith(text,
                         "pub const " \o TableOf(kind) \o ": [" \o StructOf(kind)
                         \o "; " \o str(CountType(kind)) \o "] = [\n")
                   /\ Occurrences(text, StructOf(kind) \o " {\n") = CountType(kind)

\* A finished run over a grandfathered and a redundant record.
C5_Witness ==
    /\ pc = "done"
    /\ CountType("grandfathered") = 1
    /\ CountType("redundant") = 1
    /\ Len(artifact) = 3

\* Every value suffixed with '-', one after the other.
RECURSIVE Concatenated(_)
Concatenated(l) ==
    IF l = <<>> THEN "" ELSE l[1] \o "-" \o Concatenated(Tail(l))

\* Every non-empty value suffixed with '-', a single space between two of
\* them.
RECURSIVE SpaceSeparated(_)
SpaceSeparated(l) ==
    IF l = <<>> THEN ""
    ELSE IF l[1] = "" THEN SpaceSeparated(Tail(l))
    ELSE LET rest == SpaceSeparated(Tail(l))
         IN  l[1] \o "-" \o (IF rest = "" THEN "" ELSE " " \o rest)

\* The entry the body appended for record: the body has returned and the
\* emit loop has not sorted the tables yet.
Entry(kind) == Last(Table(values, TableOf(kind)))

C6_SkipIsNeutral ==
    [][ (pc = "body" /\ Skipped(record)) =>
            /\ pc' \in { "scan", "write" }
            /\ values' = values
            /\ file_date' = file_date
            /\ exception' = exception
            /\ stdout' = Append(stdout, record)
            /\ fp' = fp /\ artifact' = artifact ]_vars

\* A finished run that skipped a record and wrote the table of another.
C6_Witness ==
    /\ pc = "done"
    /\ Len(stdout) = 1
    /\ TypeOf(stdout[1]) = "widget"
    /\ Len(artifact) = 2

\* C7: the artifact of a completed run is the record-shape declarations
\* followed by exactly one array declaration for each of the seven kinds.
C7_SevenArrays ==
    pc = "done" =>
        /\ Len(artifact) = 1 + Cardinality(Kinds)
        /\ artifact[1] = struct_definitions
        /\ \A kind \in Kinds :
             Cardinality({ i \in 2..Len(artifact) :
                 StartsWith(artifact[i], "pub const " \o TableOf(kind) \o ":") }) = 1

\* C8: a continuation line read while the current record has a field is
\* appended, after one space, to the last value of the current field; the
\* fields, the number of values of each field and every other value stay,
\* and no record is yielded.
C8_ContinuationJoins ==
    [][ (/\ pc = "scan"
         /\ nread' = nread + 1
         /\ line' # "%%"
         /\ ~field_regex(line').matched
         /\ DOMAIN current_record # {}) =>
            /\ pc' = "scan"
            /\ yielded' = yielded
            /\ current_field' = current_field
            /\ current_field \in DOMAIN current_record
            /\ field_regex(line).matched => current_field = field_regex(line).group1
            /\ DOMAIN current_record' = DOMAIN current_record
            /\ \A f \in DOMAIN current_record :
                 /\ Len(current_record'[f]) = Len(current_record[f])
                 /\ \A i \in 1..Len(current_record[f]) :
                      current_record'[f][i] =
                          IF f = current_field /\ i = Len(current_record[f])
                          THEN current_record[f][i] \o " " \o line'
                          ELSE current_record[f][i] ]_vars

\* The wrapped Description x / y z became the one value "x y z".
C8_Witness ==
    /\ pc = "scan"
    /\ line = "y z"
    /\ "Type" \in DOMAIN current_record
    /\ Get(current_record, "Description") = << "x y z" >>

\* C9: the error of a run ended by a field-cardinality violation names the
\* kind of the offending record, its Subtag or Tag, and the violated field.
C9_ErrorIdentifiesRecord ==
    (pc = "error" /\ exception.type = "ValueError") =>
        /\ Contains(exception.message, TypeOf(record))
        /\ \E f \in ViolatedFields(record) : Contains(exception.message, f)
        /\ \A id \in { "Subtag", "Tag" } \cap MandatorySingle(TypeOf(record)) :
             Card(record, id) = 1 => Contains(exception.message, record[id][1])

\* C10: a continuation line read while the current record has no field, at
\* the start of the stream or right after a separator, ends the run with an
\* error; nothing is written and the line enters no value of the current
\* record or of a record already yielded.
C10_StrayContinuationAborts ==
    [][ (/\ pc = "scan"
         /\ nread' = nread + 1
         /\ line' # "%%"
         /\ ~field_regex(line').matched
         /\ DOMAIN current_record = {}) =>
            /\ pc' = "error"
            /\ exception'.type = "IndexError"
            /\ fp' = "unopened"
            /\ artifact' = <<>>
            /\ yielded' = yielded
            /\ record' = record
            /\ values' = values
            /\ \A f \in DOMAIN current_record' : current_record'[f] = <<>> ]_vars

\* A continuation line right after a separator ended the run.
C10_Witness ==
    /\ pc = "error"
    /\ exception.type = "IndexError"
    /\ Len(yielded) >= 1
    /\ current_field # None
    /\ line = "y z"
    /\ fp = "unopened"

====
